---------------------------- MODULE Spec2Model ----------------------------
(***************************************************************************)
(* A model of the browser streaming relay: the WebSocket server of         *)
(* streaming-server.ts (src/unnamed/part_001) and the per-connection       *)
(* StreamingPlaywrightService                                              *)
(* (src/backend/src/services/streaming-playwright-service.ts).             *)
(*                                                                         *)
(* Every `await` of the source is a suspension point: an action of the     *)
(* model runs a handler from one suspension point to the next, as the      *)
(* JavaScript event loop does.  The browser driver (playwright) and the    *)
(* transport (ws) are the environment: a driver call is issued by one      *)
(* action and resolved or rejected by a later one.                         *)
(***************************************************************************)
EXTENDS Integers, Sequences, FiniteSets, TLC

(***************************************************************************)
(* Bounds of the model.                                                    *)
(***************************************************************************)
MaxMessages == 2      \* inbound messages received per connection
MaxTime == 3000       \* the clock stops here (milliseconds)
MaxEventFrames == 2   \* screencast frames the driver pushes per session
MaxCancelTime == 2000  \* the clock of a run with teardown stops here (milliseconds)
MaxSessionEvents == 1  \* messages received and frames pushed per session, where all runs at once

(***************************************************************************)
(* Program constants.                                                      *)
(***************************************************************************)
FRAME_INTERVAL == 1000
viewportSize == [width |-> 1280, height |-> 720]

Conns == {"c1", "c2"}

(***************************************************************************)
(* JavaScript numbers that occur as coordinates: rationals n/d, d > 0, in  *)
(* lowest terms.                                                           *)
(***************************************************************************)
Rat(n, d) == [n |-> n, d |-> d]
Whole(n) == Rat(n, 1)
RatLe(a, b) == a.n * b.d <= b.n * a.d
RatGt(a, b) == a.n * b.d > b.n * a.d
(***************************************************************************)
(* Coordinates are IEEE-754 doubles.  A double is kept as the bits of its  *)
(* 53-bit significand, most significant first, and the binary exponent of  *)
(* the last bit; x * k is the exact product rounded to the nearest double, *)
(* ties to even.  All of it is done on bits so that no intermediate value  *)
(* leaves the range of the integers of the model.                          *)
(***************************************************************************)
SignificandBits == 53

Abs(n) == IF n < 0 THEN -n ELSE n
Front(s) == SubSeq(s, 1, Len(s) - 1)
Last(s) == s[Len(s)]

\* e with 2^e <= n/d < 2^(e+1), for n, d > 0
RECURSIVE exponentOf(_, _)
exponentOf(n, d) ==
    IF n < d THEN exponentOf(2 * n, d) - 1
    ELSE IF n >= 2 * d THEN exponentOf(n, 2 * d) + 1
    ELSE 0

RECURSIVE pow2(_)
pow2(e) == IF e = 0 THEN 1 ELSE 2 * pow2(e - 1)

\* the next `count` binary digits of r/d (r < d) appended to acc, and the
\* remainder they leave
RECURSIVE divideBits(_, _, _, _)
divideBits(r, d, count, acc) ==
    IF count = 0 THEN [bits |-> acc, rem |-> r]
    ELSE IF 2 * r >= d THEN divideBits(2 * r - d, d, count - 1, Append(acc, 1))
    ELSE divideBits(2 * r, d, count - 1, Append(acc, 0))

\* bits + 1
RECURSIVE increment(_)
increment(bits) ==
    IF bits = << >> THEN << 1 >>
    ELSE IF Last(bits) = 0 THEN Append(Front(bits), 1)
    ELSE Append(increment(Front(bits)), 0)

\* bits * k + carry, for an integer k > 0
RECURSIVE timesBits(_, _, _, _)
timesBits(bits, k, carry, acc) ==
    IF bits = << >>
    THEN IF carry = 0 THEN acc
         ELSE timesBits(bits, k, carry \div 2, << carry % 2 >> \o acc)
    ELSE timesBits(Front(bits), k, (Last(bits) * k + carry) \div 2,
                   << (Last(bits) * k + carry) % 2 >> \o acc)

RECURSIVE bitsValue(_, _)
bitsValue(bits, acc) ==
    IF bits = << >> THEN acc ELSE bitsValue(Tail(bits), 2 * acc + Head(bits))

\* bits * 2^e rounded to SignificandBits bits, ties to even
roundToDouble(bits, e) ==
    IF Len(bits) <= SignificandBits THEN [m |-> bits, e |-> e]
    ELSE LET kept == SubSeq(bits, 1, SignificandBits)
             sticky == \E i \in (SignificandBits + 2)..Len(bits) : bits[i] = 1
             up == bits[SignificandBits + 1] = 1 /\ (sticky \/ Last(kept) = 1)
         IN  [m |-> IF up THEN increment(kept) ELSE kept,
              e |-> e + Len(bits) - SignificandBits]

\* the double nearest to n/d, for n, d > 0
toDouble(n, d) ==
    LET e == exponentOf(n, d)
        nn == IF e < 0 THEN n * pow2(-e) ELSE n
        dd == IF e > 0 THEN d * pow2(e) ELSE d
        q == divideBits(nn - dd, dd, SignificandBits - 1, << 1 >>)
        up == 2 * q.rem > dd \/ (2 * q.rem = dd /\ Last(q.bits) = 1)
    IN  [m |-> IF up THEN increment(q.bits) ELSE q.bits, e |-> e - (SignificandBits - 1)]

\* the whole part of the double dbl > 0 and whether anything is left of it
wholePart(dbl) ==
    LET w == Len(dbl.m) + dbl.e
    IN  [whole |-> IF w <= 0 THEN 0
                   ELSE bitsValue(SubSeq(dbl.m, 1, w), 0),
         rest |-> \E i \in 1..Len(dbl.m) : i > w /\ dbl.m[i] = 1]

\* n/d * k in double arithmetic, for n, d, k > 0
doubleTimes(n, d, k) ==
    LET x == toDouble(n, d)
    IN  roundToDouble(timesBits(x.m, k, 0, << >>), x.e)

\* Math.floor(x * k) for an integer k > 0
FloorTimes(x, k) ==
    IF x.n = 0 THEN Whole(0)
    ELSE LET p == wholePart(doubleTimes(Abs(x.n), x.d, k))
         IN  IF x.n > 0 THEN Whole(p.whole)
             ELSE Whole(IF p.rest THEN -p.whole - 1 ELSE -p.whole)
\* Math.min(x, k) for an integer k
MinWith(x, k) == IF RatLe(x, Whole(k)) THEN x ELSE Whole(k)

XInputs ==
    { Whole(-5), Rat(-1, 2), Whole(0), Rat(1, 2), Whole(1), Rat(3, 2), Whole(50),
      Whole(1279), Whole(1280), Whole(1281), Whole(2000) }
YInputs ==
    { Whole(-3), Whole(0), Rat(1, 2), Rat(7, 10), Whole(1), Whole(50), Whole(719), Whole(720),
      Whole(721), Whole(2000) }

(***************************************************************************)
(* The coordinate computation of the four pointer operations.  The source  *)
(* repeats it in each of them.                                             *)
(***************************************************************************)
\* Variants of the computation, for checking that the properties tell them
\* from it.
clickCoordsStrict(x, y) ==
    IF ~RatLe(Whole(1), x) /\ ~RatLe(Whole(1), y)
    THEN [x |-> FloorTimes(x, viewportSize.width), y |-> FloorTimes(y, viewportSize.height)]
    ELSE IF RatGt(x, Whole(viewportSize.width)) \/ RatGt(y, Whole(viewportSize.height))
         THEN [x |-> MinWith(x, viewportSize.width - 1),
               y |-> MinWith(y, viewportSize.height - 1)]
         ELSE [x |-> x, y |-> y]

mouseDownCoordsClampToSize(x, y) ==
    IF RatLe(x, Whole(1)) /\ RatLe(y, Whole(1))
    THEN [x |-> FloorTimes(x, viewportSize.width), y |-> FloorTimes(y, viewportSize.height)]
    ELSE IF RatGt(x, Whole(viewportSize.width)) \/ RatGt(y, Whole(viewportSize.height))
         THEN [x |-> MinWith(x, viewportSize.width), y |-> MinWith(y, viewportSize.height)]
         ELSE [x |-> x, y |-> y]

mouseUpCoordsFloored(x, y) ==
    IF RatLe(x, Whole(1)) /\ RatLe(y, Whole(1))
    THEN [x |-> FloorTimes(x, viewportSize.width), y |-> FloorTimes(y, viewportSize.height)]
    ELSE IF RatGt(x, Whole(viewportSize.width)) \/ RatGt(y, Whole(viewportSize.height))
         THEN [x |-> MinWith(x, viewportSize.width - 1),
               y |-> MinWith(y, viewportSize.height - 1)]
         ELSE [x |-> FloorTimes(x, 1), y |-> FloorTimes(y, 1)]

clickCoords(x, y) ==
    IF RatLe(x, Whole(1)) /\ RatLe(y, Whole(1))
    THEN [x |-> FloorTimes(x, viewportSize.width), y |-> FloorTimes(y, viewportSize.height)]
    ELSE IF RatGt(x, Whole(viewportSize.width)) \/ RatGt(y, Whole(viewportSize.height))
         THEN [x |-> MinWith(x, viewportSize.width - 1),
               y |-> MinWith(y, viewportSize.height - 1)]
         ELSE [x |-> x, y |-> y]

mouseDownCoords(x, y) ==
    IF RatLe(x, Whole(1)) /\ RatLe(y, Whole(1))
    THEN [x |-> FloorTimes(x, viewportSize.width), y |-> FloorTimes(y, viewportSize.height)]
    ELSE IF RatGt(x, Whole(viewportSize.width)) \/ RatGt(y, Whole(viewportSize.height))
         THEN [x |-> MinWith(x, viewportSize.width - 1),
               y |-> MinWith(y, viewportSize.height - 1)]
         ELSE [x |-> x, y |-> y]

mouseUpCoords(x, y) ==
    IF RatLe(x, Whole(1)) /\ RatLe(y, Whole(1))
    THEN [x |-> FloorTimes(x, viewportSize.width), y |-> FloorTimes(y, viewportSize.height)]
    ELSE IF RatGt(x, Whole(viewportSize.width)) \/ RatGt(y, Whole(viewportSize.height))
         THEN [x |-> MinWith(x, viewportSize.width - 1),
               y |-> MinWith(y, viewportSize.height - 1)]
         ELSE [x |-> x, y |-> y]

mouseMoveCoordsUnclamped(x, y) ==
    IF RatLe(x, Whole(1)) /\ RatLe(y, Whole(1))
    THEN [x |-> FloorTimes(x, viewportSize.width), y |-> FloorTimes(y, viewportSize.height)]
    ELSE [x |-> x, y |-> y]

mouseMoveCoords(x, y) ==
    IF RatLe(x, Whole(1)) /\ RatLe(y, Whole(1))
    THEN [x |-> FloorTimes(x, viewportSize.width), y |-> FloorTimes(y, viewportSize.height)]
    ELSE IF RatGt(x, Whole(viewportSize.width)) \/ RatGt(y, Whole(viewportSize.height))
         THEN [x |-> MinWith(x, viewportSize.width - 1),
               y |-> MinWith(y, viewportSize.height - 1)]
         ELSE [x |-> x, y |-> y]


(***************************************************************************)
(* State.                                                                  *)
(***************************************************************************)
VARIABLES
    now,             \* Date.now()
    alive,           \* the server process runs
    wsState,         \* readyState of each connection's WebSocket
    connPc,          \* where the 'connection' handler of each connection stands
    initResult,      \* how the handler's try block ended
    service,         \* the fields of each connection's StreamingPlaywrightService
    activeSessions,  \* the keys of the activeSessions map
    cleanupPc,       \* where the 'error' and 'close' handlers' cleanupSession stand
    closeLog,        \* what each close() call did, in order
    sent,            \* chat (status) messages delivered to each connection
    received,        \* inbound messages received on each connection
    errors,          \* exceptions caught while serving each connection, teardown apart
    inflight,        \* message handlers suspended in a driver call
    thrown,          \* message handlers suspended on a handleChatMessage that threw
    nextTick,        \* when the heartbeat timer of each session fires next
    captures,        \* heartbeat ticks suspended in Page.captureScreenshot
    eventFrames,     \* screencast frames the driver has pushed
    acks,            \* Page.screencastFrameAck calls the frame handler has issued
    ackWaits,        \* frame handlers suspended in Page.screencastFrameAck
    frames           \* frame messages delivered to each connection, in order

vars ==
    << now, alive, thrown, wsState, connPc, initResult, service, activeSessions, cleanupPc, closeLog,
       sent, received, errors, inflight, nextTick, captures, eventFrames, acks,
       ackWaits, frames >>

Handlers == {"error", "close"}
TeardownOps == {"stopScreencast", "detach", "pageClose", "contextClose", "browserClose"}
InitAwaits ==
    {"launch", "newContext", "newPage", "goto", "newCDPSession", "startScreencast"}
StatusKinds ==
    { "welcome", "ready", "initError", "sessionNotFound", "unknownCommand",
      "processingError", "mouseError", "keyError", "navigating", "navError", "echo" }

\* new StreamingPlaywrightService(): the field initialisers
NewService ==
    [ browser |-> FALSE, context |-> FALSE, page |-> FALSE, streamingClient |-> FALSE,
      isStreaming |-> FALSE, periodicFrameInterval |-> FALSE,
      lastActivity |-> 0, lastFrameTimestamp |-> 0 ]

\* A rejection the message handler awaits is caught in a microtask of the run
\* that received the message: until then the only other events handled are
\* those of further frames in the same chunk of the same socket.
Quiet == \A k \in Conns : thrown[k] = 0
QuietBut(c) == \A k \in Conns \ {c} : thrown[k] = 0

\* ws.send(chat message): delivered only while the socket is OPEN
wsSend(s, c, kind) ==
    IF wsState[c] = "open" THEN [s EXCEPT ![c][kind] = @ + 1] ELSE s

Init ==
    /\ now = FRAME_INTERVAL   \* Date.now() is a positive number
    /\ alive = TRUE
    /\ thrown = [c \in Conns |-> 0]
    /\ wsState = [c \in Conns |-> "absent"]
    /\ connPc = [c \in Conns |-> "absent"]
    /\ initResult = [c \in Conns |-> "pending"]
    /\ service = [c \in Conns |-> NewService]
    /\ activeSessions = {}
    /\ cleanupPc = [c \in Conns |-> [h \in Handlers |-> "idle"]]
    /\ closeLog = [c \in Conns |-> << >>]
    /\ sent = [c \in Conns |-> [k \in StatusKinds |-> 0]]
    /\ received = [c \in Conns |-> 0]
    /\ errors = [c \in Conns |-> 0]
    /\ inflight = [c \in Conns |-> << >>]
    /\ nextTick = [c \in Conns |-> 0]
    /\ captures = [c \in Conns |-> {}]
    /\ eventFrames = [c \in Conns |-> 0]
    /\ acks = [c \in Conns |-> 0]
    /\ ackWaits = [c \in Conns |-> 0]
    /\ frames = [c \in Conns |-> << >>]

(***************************************************************************)
(* wss.on('connection'): the welcome message, then initialize() up to its  *)
(* first await (chromium.launch).                                          *)
(***************************************************************************)
Connect(c) ==
    /\ alive /\ Quiet
    /\ wsState[c] = "absent"
    /\ wsState' = [wsState EXCEPT ![c] = "open"]
    /\ sent' = [sent EXCEPT ![c]["welcome"] = @ + 1]
    /\ service' = [service EXCEPT ![c] = [NewService EXCEPT !.lastActivity = now]]
    /\ connPc' = [connPc EXCEPT ![c] = "launch"]
    /\ UNCHANGED << now, alive, thrown, initResult, activeSessions, cleanupPc, closeLog, received, errors,
                    inflight, nextTick, captures, eventFrames, acks, ackWaits, frames >>

\* The fields of the service after the awaited call `step` has resolved.
initializeStep(svc, step) ==
    CASE step = "launch" -> [svc EXCEPT !.browser = TRUE]
      [] step = "newContext" -> [svc EXCEPT !.context = TRUE]
      [] step = "newPage" -> [svc EXCEPT !.page = TRUE]
      [] step = "goto" -> svc
      [] step = "newCDPSession" -> [svc EXCEPT !.streamingClient = TRUE]
      [] step = "startScreencast" ->
            [svc EXCEPT !.isStreaming = TRUE, !.periodicFrameInterval = TRUE]

\* The call initialize() awaits after `step`; "listening" once it has returned.
initializeNext(step) ==
    CASE step = "launch" -> "newContext"
      [] step = "newContext" -> "newPage"
      [] step = "newPage" -> "goto"
      [] step = "goto" -> "newCDPSession"
      [] step = "newCDPSession" -> "startScreencast"
      [] step = "startScreencast" -> "listening"

registerSessionBeforeInitialize(reg, c, ok) == reg \cup {c}

\* The registry after the try block of the 'connection' handler.
registerSession(reg, c, ok) == IF ok THEN reg \cup {c} ELSE reg

(***************************************************************************)
(* An awaited call of initialize() resolves (ok) or rejects.  After the    *)
(* last one the handler stores the session, confirms, and registers the    *)
(* 'message', 'close' and 'error' listeners; after a rejection it sends    *)
(* the diagnostic and registers the same listeners.                        *)
(***************************************************************************)
InitResolve(c, ok) ==
    /\ alive /\ Quiet
    /\ connPc[c] \in InitAwaits
    /\ LET step == connPc[c]
           done == ok /\ step = "startScreencast"
       IN  /\ service' = [service EXCEPT ![c] = IF ok THEN initializeStep(@, step) ELSE @]
           /\ connPc' = [connPc EXCEPT ![c] = IF ok THEN initializeNext(step) ELSE "listening"]
           /\ initResult' = [initResult EXCEPT ![c] =
                  IF ~ok THEN "failed" ELSE IF done THEN "ok" ELSE @]
           /\ activeSessions' =
                  IF ok /\ ~done THEN activeSessions ELSE registerSession(activeSessions, c, ok)
           /\ sent' = IF ~ok THEN wsSend(sent, c, "initError")
                      ELSE IF done THEN wsSend(sent, c, "ready") ELSE sent
           /\ nextTick' = [nextTick EXCEPT ![c] = IF done THEN now + FRAME_INTERVAL ELSE @]
           /\ errors' = [errors EXCEPT ![c] = IF ok THEN @ ELSE @ + 1]
    /\ UNCHANGED << now, alive, thrown, wsState, cleanupPc, closeLog, received, inflight, captures,
                    eventFrames, acks, ackWaits, frames >>

(***************************************************************************)
(* close(): the teardown of one service.  A call is a record of the        *)
(* service's fields, the awaited driver call it stands at ("returned" and  *)
(* "threw" once it has ended) and the driver calls it issues on the way.   *)
(***************************************************************************)
closeAt(svc, pc, issued) == [svc |-> svc, pc |-> pc, issued |-> issued]

\* if (this.browser) { await this.browser.close(); ... }
closeBrowserStage(svc, issued) ==
    IF svc.browser
    THEN closeAt(svc, "browserClose", Append(issued, "browserClose"))
    ELSE closeAt(svc, "returned", issued)

\* if (this.context) { await this.context.close(); ... }
closeContextStage(svc, issued) ==
    IF svc.context
    THEN closeAt(svc, "contextClose", Append(issued, "contextClose"))
    ELSE closeBrowserStage(svc, issued)

\* if (this.page) { await this.page.close(); ... }
closePageStage(svc, issued) ==
    IF svc.page
    THEN closeAt(svc, "pageClose", Append(issued, "pageClose"))
    ELSE closeContextStage(svc, issued)

closeBeginKeepsTimer(svc) ==
    LET s1 == [svc EXCEPT !.isStreaming = FALSE]
    IN  IF s1.streamingClient
        THEN closeAt(s1, "stopScreencast", << "stopScreencast" >>)
        ELSE closePageStage(s1, << >>)

\* close() from its entry to its first await
closeBegin(svc) ==
    LET s1 == [svc EXCEPT !.isStreaming = FALSE, !.periodicFrameInterval = FALSE]
    IN  IF s1.streamingClient
        THEN closeAt(s1, "stopScreencast", << "stopScreencast" >>)
        ELSE closePageStage(s1, << >>)

\* close() from the await `pc`, which resolved (ok) or rejected, to its next await.
\* The fields are read as they are when the call resumes.
closeResume(svc, pc, ok) ==
    CASE pc = "stopScreencast" ->
            IF ok /\ svc.streamingClient
            THEN closeAt(svc, "detach", << "detach" >>)
            ELSE \* a rejection, or this.streamingClient.detach() on null: caught
                 closePageStage([svc EXCEPT !.streamingClient = FALSE], << >>)
      [] pc = "detach" -> closePageStage([svc EXCEPT !.streamingClient = FALSE], << >>)
      [] pc = "pageClose" ->
            IF ok THEN closeContextStage([svc EXCEPT !.page = FALSE], << >>)
            ELSE closeAt(svc, "threw", << >>)
      [] pc = "contextClose" ->
            IF ok THEN closeBrowserStage([svc EXCEPT !.context = FALSE], << >>)
            ELSE closeAt(svc, "threw", << >>)
      [] pc = "browserClose" ->
            IF ok THEN closeAt([svc EXCEPT !.browser = FALSE], "returned", << >>)
            ELSE closeAt(svc, "threw", << >>)

\* The entries a close() call of handler h adds to the log.
LogOf(h, first, r) ==
    first \o [i \in 1..Len(r.issued) |-> [by |-> h, ev |-> r.issued[i]]]
          \o (IF r.pc \in {"returned", "threw"} THEN << [by |-> h, ev |-> r.pc] >> ELSE << >>)

\* cleanupSession after close() has ended: the entry is deleted only if it returned.
cleanupDelete(reg, c, pc) == IF pc = "returned" THEN reg \ {c} ELSE reg

cleanupEnd(pc) ==
    CASE pc = "returned" -> "cleaned"
      [] pc = "threw" -> "failed"
      [] OTHER -> pc

(***************************************************************************)
(* cleanupSession(sessionId) from its entry to its first await.            *)
(***************************************************************************)
cleanupSession(c, h) ==
    IF c \in activeSessions
    THEN LET r == closeBegin(service[c])
         IN  /\ service' = [service EXCEPT ![c] = r.svc]
             /\ cleanupPc' = [cleanupPc EXCEPT ![c][h] = cleanupEnd(r.pc)]
             /\ closeLog' = [closeLog EXCEPT ![c] =
                    @ \o LogOf(h, << [by |-> h, ev |-> "begin"] >>, r)]
             /\ activeSessions' = cleanupDelete(activeSessions, c, r.pc)
    ELSE /\ cleanupPc' = [cleanupPc EXCEPT ![c][h] = "noSession"]
         /\ UNCHANGED << service, closeLog, activeSessions >>

(***************************************************************************)
(* The transport.  The socket reports an error (it is then CLOSING) and    *)
(* closes; 'close' also comes alone.  The listeners exist only once the    *)
(* 'connection' handler has passed its try block: an event emitted before  *)
(* finds none.  A 'close' event without a listener is lost; an 'error'     *)
(* event without one throws out of the emit, nothing catches it, and the   *)
(* process ends with every session it serves: no step follows.             *)
(***************************************************************************)
\* The peer's close frame: the socket is CLOSING, and no event is emitted
\* until the peer ends the stream.
CloseFrame(c) ==
    /\ alive /\ QuietBut(c)
    /\ wsState[c] = "open"
    /\ wsState' = [wsState EXCEPT ![c] = "closing"]
    /\ UNCHANGED << now, alive, thrown, connPc, initResult, service, activeSessions, cleanupPc,
                    closeLog, sent, received, errors, inflight, nextTick, captures,
                    eventFrames, acks, ackWaits, frames >>

TransportError(c) ==
    /\ alive /\ QuietBut(c)
    /\ wsState[c] = "open"
    /\ wsState' = [wsState EXCEPT ![c] = "closing"]
    /\ IF connPc[c] = "listening"
       THEN /\ cleanupSession(c, "error")
            /\ UNCHANGED alive
       ELSE \* no 'error' listener yet: the emit throws and nothing catches it
            /\ alive' = FALSE
            /\ UNCHANGED << service, cleanupPc, closeLog, activeSessions >>
    /\ UNCHANGED << now, thrown, connPc, initResult, sent, received, errors, inflight, nextTick,
                    captures, eventFrames, acks, ackWaits, frames >>

TransportClose(c) ==
    /\ alive /\ Quiet
    /\ wsState[c] \in {"open", "closing"}
    /\ wsState' = [wsState EXCEPT ![c] = "closed"]
    /\ IF connPc[c] = "listening"
       THEN cleanupSession(c, "close")
       ELSE UNCHANGED << service, cleanupPc, closeLog, activeSessions >>
    /\ UNCHANGED << now, alive, thrown, connPc, initResult, sent, received, errors, inflight, nextTick,
                    captures, eventFrames, acks, ackWaits, frames >>

(***************************************************************************)
(* The driver call a close() is suspended in resolves or rejects.          *)
(***************************************************************************)
CloseResolve(c, h, ok) ==
    /\ alive /\ Quiet
    /\ cleanupPc[c][h] \in TeardownOps
    /\ LET r == closeResume(service[c], cleanupPc[c][h], ok)
       IN  /\ service' = [service EXCEPT ![c] = r.svc]
           /\ cleanupPc' = [cleanupPc EXCEPT ![c][h] = cleanupEnd(r.pc)]
           /\ closeLog' = [closeLog EXCEPT ![c] = @ \o LogOf(h, << >>, r)]
           /\ activeSessions' = cleanupDelete(activeSessions, c, r.pc)
    /\ UNCHANGED << now, alive, thrown, wsState, connPc, initResult, sent, received, errors, inflight,
                    nextTick, captures, eventFrames, acks, ackWaits, frames >>

Lifecycle(c) ==
    \/ Connect(c)
    \/ \E ok \in BOOLEAN : InitResolve(c, ok)
    \/ CloseFrame(c)
    \/ TransportError(c)
    \/ TransportClose(c)
    \/ \E h \in Handlers, ok \in BOOLEAN : CloseResolve(c, h, ok)

Next == \E c \in {"c1"} : Lifecycle(c)

Spec == Init /\ [][Next]_vars

(***************************************************************************)
(* Reading the log of close() calls.                                       *)
(***************************************************************************)
LogIdx(c, h, evs) == {i \in DOMAIN closeLog[c] : closeLog[c][i].by = h /\ closeLog[c][i].ev \in evs}
Began(c, h) == LogIdx(c, h, {"begin"}) # {}
Ended(c, h) == LogIdx(c, h, {"returned", "threw"}) # {}
Threw(c, h) == LogIdx(c, h, {"threw"}) # {}
IssuedBy(c, h, op) == Cardinality(LogIdx(c, h, {op}))
Issued(c, op) == Cardinality({i \in DOMAIN closeLog[c] : closeLog[c][i].ev = op})
BeginAt(c, h) == CHOOSE i \in LogIdx(c, h, {"begin"}) : TRUE
EndAt(c, h) == CHOOSE i \in LogIdx(c, h, {"returned", "threw"}) : TRUE
\* h2's close() began while h1's was suspended
Overlap(c, h1, h2) ==
    /\ Began(c, h1) /\ Began(c, h2)
    /\ BeginAt(c, h1) < BeginAt(c, h2)
    /\ Ended(c, h1) => BeginAt(c, h2) < EndAt(c, h1)
\* h2's close() began after h1's had ended
InSequence(c, h1, h2) ==
    /\ Ended(c, h1) /\ Began(c, h2)
    /\ EndAt(c, h1) < BeginAt(c, h2)
CleanupRunning(c) == \E h \in Handlers : cleanupPc[c][h] \in TeardownOps

\* C2: once a connection's transport has closed, the registry holds no entry for
\* it that no teardown was started for, also when the close came while the
\* browser was still being initialized.
C2_NoSessionOutlivesConnection ==
    \A c \in Conns :
        (/\ wsState[c] = "closed"
         /\ connPc[c] = "listening"
         /\ \A h \in Handlers : cleanupPc[c][h] = "idle")
        => c \notin activeSessions

\* C3: when the cleanups triggered by the transport error and by the transport
\* close interleave, each teardown driver call is issued exactly once and the
\* registry entry is removed.
C3_InterleavedCleanupOnce ==
    \A c \in Conns : \A h1, h2 \in Handlers :
        Overlap(c, h1, h2) =>
            /\ \A op \in TeardownOps : Issued(c, op) <= 1
            /\ (Ended(c, h1) /\ Ended(c, h2)) =>
                  /\ \A op \in TeardownOps : Issued(c, op) = 1
                  /\ c \notin activeSessions

\* C4: a close() called after an earlier close() of the same service has ended
\* issues no driver call and surfaces no error.
C4_SecondCloseIsNoOp ==
    \A c \in Conns : \A h1, h2 \in Handlers :
        InSequence(c, h1, h2) =>
            /\ \A op \in TeardownOps : IssuedBy(c, h2, op) = 0
            /\ ~Threw(c, h2)

\* C5: a close() that has ended has attempted every teardown step, whichever of
\* them failed, and has not passed a failure on to its caller.
C5_TeardownStepsAllAttempted ==
    \A c \in Conns : \A h \in Handlers :
        (Ended(c, h) /\ ~CleanupRunning(c)) =>
            /\ ~Threw(c, h)
            /\ \A op \in TeardownOps : Issued(c, op) >= 1

\* C6: after the transport of a connection with a registered session has closed,
\* the registry entry is gone once the cleanups have run to their end, also when
\* teardown steps failed.
C6_CleanupRemovesEntry ==
    \A c \in Conns :
        (/\ wsState[c] = "closed"
         /\ \E h \in Handlers : Began(c, h)
         /\ ~CleanupRunning(c))
        => c \notin activeSessions

\* The step in which the try block of the 'connection' handler fails.
C10_InitFailureStep ==
    \A c \in Conns :
        (initResult[c] = "pending" /\ initResult'[c] = "failed") =>
            /\ c \notin activeSessions'
            /\ wsState'[c] = wsState[c]
            /\ sent'[c]["initError"] = IF wsState[c] = "open" THEN 1 ELSE 0
\* The states after it.
C10_InitFailureState ==
    \A c \in Conns :
        initResult[c] = "failed" =>
            /\ c \notin activeSessions
            /\ sent[c]["ready"] = 0
            /\ sent[c]["initError"] <= 1
            /\ wsState[c] = "open" => sent[c]["initError"] = 1
\* C10: when session creation fails no entry is added to the registry, then or
\* later, exactly one diagnostic message reaches the connection (none once it
\* is no longer open), and the failure leaves the connection as it was.
C10_InitFailure == [] C10_InitFailureState /\ [][C10_InitFailureStep]_vars
C10_Witness ==
    /\ initResult["c1"] = "failed"
    /\ wsState["c1"] = "open"
    /\ sent["c1"]["initError"] = 1
    /\ service["c1"].browser

(***************************************************************************)
(* Inbound messages.  ws.on('message') starts its async handler for each   *)
(* message as the message arrives; the handler runs to its first await, a  *)
(* driver call, and is resumed when that call resolves or rejects.         *)
(***************************************************************************)
PointerTypes == {"click", "mousedown", "mouseup", "mousemove"}
PointerMessages(xs, ys) == [type : PointerTypes, x : xs, y : ys]
KeyTypes == {"keyPress", "keypress"}
KeyMessages(ks) == [type : KeyTypes, key : ks]
ChatMessages(ts) == [type : {"chat"}, content : [text : ts]]

\* A payload JSON.parse throws on.
Unparsable == [raw |-> "{type:"]
\* JSON.parse(message.toString()) returns
parses(msg) == "raw" \notin DOMAIN msg
\* data.type
typeOf(msg) == IF "type" \in DOMAIN msg THEN msg.type ELSE "undefined"
\* typeof data[f] === 'number': a JSON number is a rational, a JSON string
\* is [str |-> s], a missing field is undefined
typeofNumber(msg, f) == f \in DOMAIN msg /\ DOMAIN msg[f] = {"n", "d"}

hasKeyField(msg) == "key" \in DOMAIN msg

\* !data.key is false: the key is there and is not the empty string
hasKey(msg) == "key" \in DOMAIN msg /\ msg.key # ""

\* chatMessage.text is a string
hasText(msg) == "content" \in DOMAIN msg /\ "text" \in DOMAIN msg.content

\* The pixel position the service method for `type` computes from (x, y).
pointerCoords(type, x, y) ==
    CASE type = "click" -> clickCoords(x, y)
      [] type = "mousedown" -> mouseDownCoords(x, y)
      [] type = "mouseup" -> mouseUpCoords(x, y)
      [] type = "mousemove" -> mouseMoveCoords(x, y)

pointerFirstCallButton(type) ==
    CASE type = "click" -> "click"
      [] type = "mousedown" -> "down"
      [] type = "mouseup" -> "up"
      [] OTHER -> "move"

\* The first driver call of the service method for `type`.
pointerFirstCall(type) == IF type = "click" THEN "click" ELSE "move"

\* The driver call that follows `call` in the method, "none" when it returns.
pointerNextCall(type, call) ==
    CASE type = "mousedown" /\ call = "move" -> "down"
      [] type = "mouseup" /\ call = "move" -> "up"
      [] OTHER -> "none"

NamedKeys ==
    { "Enter", "Backspace", "Tab", "Escape", "ArrowLeft", "ArrowRight", "ArrowUp",
      "ArrowDown", "Delete" }

pressKeyTypesSpace(key) ==
    CASE key = "Back" -> [call |-> "goBack", arg |-> ""]
      [] key = "Forward" -> [call |-> "goForward", arg |-> ""]
      [] key = "F5" -> [call |-> "reload", arg |-> ""]
      [] key \in NamedKeys -> [call |-> "press", arg |-> key]
      [] OTHER -> IF Len(key) = 1 THEN [call |-> "type", arg |-> key]
                  ELSE [call |-> "press", arg |-> key]

\* The driver call of pressKey(key): the switch over the key.
pressKeyCall(key) ==
    CASE key = "Back" -> [call |-> "goBack", arg |-> ""]
      [] key = "Forward" -> [call |-> "goForward", arg |-> ""]
      [] key = "F5" -> [call |-> "reload", arg |-> ""]
      [] key \in NamedKeys -> [call |-> "press", arg |-> key]
      [] key = " " -> [call |-> "press", arg |-> "Space"]
      [] OTHER -> IF Len(key) = 1 THEN [call |-> "type", arg |-> key]
                  ELSE [call |-> "press", arg |-> key]

(***************************************************************************)
(* The navigation command of a chat text:                                  *)
(* /^(go to|navigate to|open) (.+)$/i                                      *)
(* A JavaScript string is a sequence of UTF-16 code units, kept here as a  *)
(* sequence of their numbers; Text(s) is the string of the characters of   *)
(* s, for s made of the printable characters of ASCII (the grave accent,   *)
(* code unit 96, apart).                                                   *)
(***************************************************************************)
AsciiToUnderscore ==
    " !\"#$%&'()*+,-./0123456789:;<=>?@ABCDEFGHIJKLMNOPQRSTUVWXYZ[\\]^_"
AsciiFromSmallA == "abcdefghijklmnopqrstuvwxyz{|}~"
charAt(s, i) == SubSeq(s, i, i)
IndexIn(s, ch) == CHOOSE i \in 1..Len(s) : charAt(s, i) = ch
\* the code unit of the character ch: the space is 32, "a" is 97
codeOf(ch) ==
    IF \E i \in 1..Len(AsciiFromSmallA) : charAt(AsciiFromSmallA, i) = ch
    THEN 96 + IndexIn(AsciiFromSmallA, ch)
    ELSE 31 + IndexIn(AsciiToUnderscore, ch)
Text(s) == [i \in 1..Len(s) |-> codeOf(charAt(s, i))]

\* The /i flag: a code unit of the text matches a letter of the pattern when
\* the two are the same letter of ASCII in either case ("A" is 65, "a" 97);
\* no code unit outside ASCII matches a letter of ASCII.
toLowerUnit(u) == IF u \in 65..90 THEN u + 32 ELSE u
toLowerCase(s) == [i \in 1..Len(s) |-> toLowerUnit(s[i])]

\* s.startsWith(prefix)
startsWith(s, prefix) == Len(s) >= Len(prefix) /\ SubSeq(s, 1, Len(prefix)) = prefix

NavigateVerbs == {Text("go to"), Text("navigate to"), Text("open")}

\* The code units `.` does not match: line feed, carriage return, U+2028
\* LINE SEPARATOR and U+2029 PARAGRAPH SEPARATOR.
LineTerminators == {10, 13, 8232, 8233}

\* `text` is the verb (in any case), a space (32), and one or more code units
\* none of which ends a line
matchesVerb(text, verb) ==
    /\ Len(text) >= Len(verb) + 2
    /\ toLowerCase(SubSeq(text, 1, Len(verb))) = verb
    /\ text[Len(verb) + 1] = 32
    /\ \A i \in (Len(verb) + 2)..Len(text) : text[i] \notin LineTerminators

\* navigateMatch[2], the empty string when the text does not match
navigateMatch(text) ==
    IF \E verb \in NavigateVerbs : matchesVerb(text, verb)
    THEN LET verb == CHOOSE v \in NavigateVerbs : matchesVerb(text, v)
         IN  SubSeq(text, Len(verb) + 2, Len(text))
    ELSE << >>

\* The url handleChatMessage navigates to.
navigateUrl(target) ==
    IF startsWith(target, Text("http")) THEN target ELSE Text("https://") \o target

dropError(s, c, kind) == s

\* The catch block of a handler: the diagnostic it sends.
reportError(s, c, kind) == wsSend(s, c, kind)

\* A handler ends in its catch block.
caught(c, kind) ==
    /\ sent' = reportError(sent, c, kind)
    /\ errors' = [errors EXCEPT ![c] = @ + 1]
    /\ UNCHANGED << inflight, thrown >>

\* A handler issues a driver call and awaits it.
awaits(c, op) ==
    /\ inflight' = [inflight EXCEPT ![c] = Append(@, op)]
    /\ UNCHANGED << errors, thrown >>

\* handleMouseEvent up to the first await of the service method
handleMouseEvent(c, msg) ==
    IF ~(typeofNumber(msg, "x") /\ typeofNumber(msg, "y"))
    THEN caught(c, "mouseError")    \* 'Missing coordinates'
    ELSE IF ~service[c].page
    THEN caught(c, "mouseError")    \* 'Playwright not initialized'
    ELSE /\ awaits(c, [type |-> msg.type, x |-> msg.x, y |-> msg.y,
                       call |-> pointerFirstCall(msg.type),
                       at |-> pointerCoords(msg.type, msg.x, msg.y)])
         /\ UNCHANGED sent

\* handleKeyEvent up to the await of pressKey
handleKeyEvent(c, msg) ==
    IF ~hasKey(msg)
    THEN caught(c, "keyError")      \* 'Missing key value'
    ELSE IF ~service[c].page
    THEN caught(c, "keyError")      \* 'Playwright not initialized'
    ELSE /\ awaits(c, [type |-> msg.type, key |-> msg.key,
                       call |-> pressKeyCall(msg.key).call,
                       arg |-> pressKeyCall(msg.key).arg])
         /\ UNCHANGED sent

\* A handler throws outside every try block of the async function it runs
\* in: the promise the message handler awaits is rejected.
throws(c) ==
    /\ thrown' = [thrown EXCEPT ![c] = @ + 1]
    /\ UNCHANGED << sent, inflight, errors >>

\* handleChatMessage up to the await of navigate
handleChatMessage(c, msg) ==
    IF ~hasText(msg)
    THEN \* chatMessage.text.match throws a TypeError outside the try block
         throws(c)
    ELSE LET target == navigateMatch(msg.content.text)
         IN  IF target = << >>
             THEN /\ sent' = wsSend(sent, c, "echo")
                  /\ UNCHANGED << inflight, errors, thrown >>
             ELSE IF ~service[c].page
             THEN \* 'Playwright not initialized', after the announcement
                  /\ sent' = reportError(wsSend(sent, c, "navigating"), c, "navError")
                  /\ errors' = [errors EXCEPT ![c] = @ + 1]
                  /\ UNCHANGED << inflight, thrown >>
             ELSE /\ sent' = wsSend(sent, c, "navigating")
                  /\ awaits(c, [type |-> "chat", text |-> msg.content.text,
                                call |-> "goto", arg |-> navigateUrl(target)])

sessionLookupAlways(c) == TRUE

\* activeSessions.get(sessionId) is defined
sessionLookup(c) == c \in activeSessions

(***************************************************************************)
(* ws.on('message'): the handler from its entry to its first await.        *)
(***************************************************************************)
Receive(c, msg) ==
    /\ alive /\ QuietBut(c)
    /\ wsState[c] = "open"
    /\ connPc[c] = "listening"
    /\ received[c] < MaxMessages
    /\ received' = [received EXCEPT ![c] = @ + 1]
    /\ IF ~parses(msg)
       THEN caught(c, "processingError")
       ELSE IF ~sessionLookup(c)
       THEN /\ sent' = wsSend(sent, c, "sessionNotFound")
            /\ UNCHANGED << inflight, errors, thrown >>
       ELSE CASE typeOf(msg) \in PointerTypes -> handleMouseEvent(c, msg)
              [] typeOf(msg) \in KeyTypes -> handleKeyEvent(c, msg)
              [] typeOf(msg) = "chat" -> handleChatMessage(c, msg)
              [] OTHER -> /\ sent' = wsSend(sent, c, "unknownCommand")
                          /\ UNCHANGED << inflight, errors, thrown >>
    /\ UNCHANGED << now, alive, wsState, connPc, initResult, service, activeSessions, cleanupPc,
                    closeLog, nextTick, captures, eventFrames, acks, ackWaits, frames >>

(***************************************************************************)
(* The catch block of the message handler, resumed from its await of a     *)
(* handleChatMessage that threw: it reports the error on the socket, which *)
(* drops the message unless it is still OPEN.                              *)
(***************************************************************************)
ListenerCatch(c) ==
    /\ alive
    /\ thrown[c] > 0
    /\ thrown' = [thrown EXCEPT ![c] = @ - 1]
    /\ sent' = reportError(sent, c, "processingError")
    /\ errors' = [errors EXCEPT ![c] = @ + 1]
    /\ UNCHANGED << now, alive, wsState, connPc, initResult, service, activeSessions, cleanupPc,
                    closeLog, received, inflight, nextTick, captures, eventFrames, acks,
                    ackWaits, frames >>

RemoveAt(s, i) == [j \in 1..(Len(s) - 1) |-> IF j < i THEN s[j] ELSE s[j + 1]]

\* The diagnostic of the catch block that a rejected call of `type` ends in.
errorKind(type) ==
    CASE type \in PointerTypes -> "mouseError"
      [] type \in KeyTypes -> "keyError"
      [] type = "chat" -> "navError"

\* A variant in which a rejected driver call ends the session.
OpResolveEndsSession(c, i, ok) ==
    /\ alive /\ Quiet
    /\ i \in DOMAIN inflight[c]
    /\ LET op == inflight[c][i]
           next == pointerNextCall(op.type, op.call)
       IN  IF ok /\ next # "none" /\ service[c].page
           THEN \* mouseDown / mouseUp: the move is done, toggle the button
                /\ inflight' = [inflight EXCEPT ![c][i].call = next]
                /\ UNCHANGED << sent, service, errors >>
           ELSE /\ inflight' = [inflight EXCEPT ![c] = RemoveAt(@, i)]
                /\ IF ok /\ next = "none"
                   THEN /\ service' = [service EXCEPT ![c].lastActivity = now]
                        /\ UNCHANGED << sent, errors >>
                   ELSE \* the rejection is rethrown and reported by the handler
                        /\ sent' = reportError(sent, c, errorKind(op.type))
                        /\ errors' = [errors EXCEPT ![c] = @ + 1]
                        /\ UNCHANGED service
    /\ activeSessions' = IF ok THEN activeSessions ELSE activeSessions \ {c}
    /\ UNCHANGED << now, alive, thrown, wsState, connPc, initResult, cleanupPc,
                    closeLog, received, nextTick, captures, eventFrames, acks, ackWaits, frames >>

(***************************************************************************)
(* The driver call of the i-th suspended handler resolves or rejects.      *)
(***************************************************************************)
OpResolve(c, i, ok) ==
    /\ alive /\ Quiet
    /\ i \in DOMAIN inflight[c]
    /\ LET op == inflight[c][i]
           next == pointerNextCall(op.type, op.call)
       IN  IF ok /\ next # "none" /\ service[c].page
           THEN \* mouseDown / mouseUp: the move is done, toggle the button
                /\ inflight' = [inflight EXCEPT ![c][i].call = next]
                /\ UNCHANGED << sent, service, errors >>
           ELSE /\ inflight' = [inflight EXCEPT ![c] = RemoveAt(@, i)]
                /\ IF ok /\ next = "none"
                   THEN /\ service' = [service EXCEPT ![c].lastActivity = now]
                        /\ UNCHANGED << sent, errors >>
                   ELSE \* the rejection is rethrown and reported by the handler
                        /\ sent' = reportError(sent, c, errorKind(op.type))
                        /\ errors' = [errors EXCEPT ![c] = @ + 1]
                        /\ UNCHANGED service
    /\ UNCHANGED << now, alive, thrown, wsState, connPc, initResult, activeSessions, cleanupPc,
                    closeLog, received, nextTick, captures, eventFrames, acks, ackWaits, frames >>

(***************************************************************************)
(* One client that sends pointer events one at a time, over the whole      *)
(* range of coordinates.                                                   *)
(***************************************************************************)
PointerClient(c) ==
    \/ Connect(c)
    \/ \E ok \in BOOLEAN : InitResolve(c, ok)
    \/ /\ inflight[c] = << >>
       /\ \E msg \in PointerMessages(XInputs, YInputs) : Receive(c, msg)
    \/ \E i \in 1..MaxMessages, ok \in BOOLEAN : OpResolve(c, i, ok)

NextPointer == \E c \in {"c1"} : PointerClient(c)

SpecPointer == Init /\ [][NextPointer]_vars

(***************************************************************************)
(* One client that sends its messages without waiting for the earlier ones *)
(* to be processed.                                                        *)
(***************************************************************************)
FewX == {Rat(1, 2), Whole(2000)}
FewY == {Rat(1, 2)}

InputClient(c) ==
    \/ Connect(c)
    \/ \E ok \in BOOLEAN : InitResolve(c, ok)
    \/ \E msg \in PointerMessages(FewX, FewY) : Receive(c, msg)
    \/ \E i \in 1..MaxMessages, ok \in BOOLEAN : OpResolve(c, i, ok)

NextInput == \E c \in {"c1"} : InputClient(c)

SpecInput == Init /\ [][NextInput]_vars

InViewport(p) ==
    /\ RatLe(Whole(0), p.x) /\ RatLe(p.x, Whole(viewportSize.width - 1))
    /\ RatLe(Whole(0), p.y) /\ RatLe(p.y, Whole(viewportSize.height - 1))

\* C1: the coordinates of every pointer call handed to the driver lie within
\* [0, W-1] x [0, H-1], whatever numbers the client sent.
C1_DispatchedWithinViewport ==
    \A c \in Conns : \A i \in DOMAIN inflight[c] :
        inflight[c][i].call \in {"click", "move"} => InViewport(inflight[c][i].at)

\* C9: at no time are two input operations of one connection outstanding
\* against its browser.
C9_OneInputOperationAtATime ==
    \A c \in Conns : Len(inflight[c]) <= 1

(***************************************************************************)
(* Frames.  The clock moves in steps.  The callback of a heartbeat timer    *)
(* runs once its time has come, at that time or later, whenever the event  *)
(* loop gets to it; the timer is then set again, FRAME_INTERVAL from the   *)
(* time the callback ran.  By Date.now() two callbacks of a timer can be   *)
(* one millisecond less than FRAME_INTERVAL apart.                         *)
(***************************************************************************)
ClockSteps == {1, 249, 250}
\* The times the clock of a run with frames takes: the quarters of a second
\* and the millisecond before each multiple of FRAME_INTERVAL.
OnGrid(t) == t % 250 = 0 \/ t % FRAME_INTERVAL = FRAME_INTERVAL - 1

findAnyOpenSocket(c) == {k \in Conns : wsState[k] = "open"}

\* findWebSocketForSession: the client with this session id whose socket is OPEN
findWebSocketForSession(c) == {k \in Conns : k = c /\ wsState[k] = "open"}

\* ws.send(frame message) on the socket found: the frame of session c reaches
\* the connections of `to`
sendFrame(f, to, c, kind) ==
    [k \in Conns |->
        IF k \in to THEN Append(f[k], [kind |-> kind, at |-> now, session |-> c]) ELSE f[k]]

\* The timers run on a clock of their own, which can be a millisecond ahead
\* of Date.now(): a callback can run when Date.now() is still one short of the
\* time the timer was set for.
TimerLead == 1
TickDue(c) == service[c].periodicFrameInterval /\ now >= nextTick[c] - TimerLead

Advance(d) ==
    /\ alive /\ Quiet
    /\ now + d <= MaxTime
    /\ now' = now + d
    /\ UNCHANGED << alive, thrown, wsState, connPc, initResult, service, activeSessions, cleanupPc,
                    closeLog, sent, received, errors, inflight, nextTick, captures,
                    eventFrames, acks, ackWaits, frames >>

\* The throttle test of the heartbeat callback.
heartbeatWanted(svc, t) ==
    svc.lastFrameTimestamp = 0 \/ (t - svc.lastFrameTimestamp) >= FRAME_INTERVAL

(***************************************************************************)
(* The setInterval callback of startPeriodicFrames up to its await of      *)
(* Page.captureScreenshot.                                                 *)
(***************************************************************************)
HeartbeatTick(c) ==
    /\ alive /\ Quiet
    /\ TickDue(c)
    /\ nextTick' = [nextTick EXCEPT ![c] = now + FRAME_INTERVAL]
    /\ captures' = [captures EXCEPT ![c] =
           IF /\ service[c].isStreaming /\ service[c].page /\ service[c].streamingClient
              /\ heartbeatWanted(service[c], now)
           THEN @ \cup {now} ELSE @]
    /\ UNCHANGED << now, alive, thrown, wsState, connPc, initResult, service, activeSessions, cleanupPc,
                    closeLog, sent, received, errors, inflight, eventFrames, acks, ackWaits,
                    frames >>

periodicFrameSentNoStamp(svc, t) == svc

\* this.lastFrameTimestamp = now, after the heartbeat frame is sent; `now` is
\* the time the tick read before it awaited the capture
periodicFrameSent(svc, t) == [svc EXCEPT !.lastFrameTimestamp = t]

\* The exceptions the callback has caught once its capture has ended: a
\* rejection of the capture, or this.page.viewportSize() on a null page.
captureErrors(n, c, ok) ==
    IF ok /\ (findWebSocketForSession(c) = {} \/ service[c].page) THEN n ELSE n + 1

(***************************************************************************)
(* The capture of the tick of time t resolves or rejects: the rest of the  *)
(* callback.                                                               *)
(***************************************************************************)
CaptureResolve(c, t, ok) ==
    /\ alive /\ Quiet
    /\ t \in captures[c]
    /\ captures' = [captures EXCEPT ![c] = @ \ {t}]
    /\ IF ok /\ findWebSocketForSession(c) # {} /\ service[c].page
       THEN /\ frames' = sendFrame(frames, findWebSocketForSession(c), c, "heartbeat")
            /\ service' = [service EXCEPT ![c] = periodicFrameSent(@, t)]
       ELSE \* rejected, no open socket, or this.page is null: nothing is sent
            UNCHANGED << frames, service >>
    /\ errors' = [errors EXCEPT ![c] = captureErrors(@, c, ok)]
    /\ UNCHANGED << now, alive, thrown, wsState, connPc, initResult, activeSessions, cleanupPc, closeLog,
                    sent, received, inflight, nextTick, eventFrames, acks, ackWaits >>

\* this.lastFrameTimestamp = now; this.lastActivity = now; at the head of the
\* frame handler
screencastFrameReceived(svc, t) == [svc EXCEPT !.lastFrameTimestamp = t, !.lastActivity = t]

\* A variant in which the frame handler applies the throttle of the heartbeat.
EventFrameThrottled(c) ==
    /\ alive /\ Quiet
    /\ initResult[c] = "ok"
    /\ eventFrames[c] < MaxEventFrames
    /\ eventFrames' = [eventFrames EXCEPT ![c] = @ + 1]
    /\ IF ~service[c].isStreaming \/ ~heartbeatWanted(service[c], now)
       THEN UNCHANGED << service, frames, acks, ackWaits >>
       ELSE /\ service' = [service EXCEPT ![c] = screencastFrameReceived(@, now)]
            /\ IF findWebSocketForSession(c) = {}
               THEN UNCHANGED << frames, acks, ackWaits >>
               ELSE /\ frames' = sendFrame(frames, findWebSocketForSession(c), c, "event")
                    /\ IF service[c].streamingClient
                       THEN /\ acks' = [acks EXCEPT ![c] = @ + 1]
                            /\ ackWaits' = [ackWaits EXCEPT ![c] = @ + 1]
                       ELSE UNCHANGED << acks, ackWaits >>
    /\ UNCHANGED << now, alive, thrown, wsState, connPc, initResult, activeSessions, cleanupPc, closeLog,
                    sent, received, errors, inflight, nextTick, captures >>

(***************************************************************************)
(* The driver pushes a Page.screencastFrame event to the handler that      *)
(* setupScreencast registered; the handler stays registered for as long as *)
(* the driver's session lives.  The step is the handler up to its await of *)
(* the acknowledgement.                                                    *)
(***************************************************************************)
EventFrame(c) ==
    /\ alive /\ Quiet
    /\ initResult[c] = "ok"
    /\ eventFrames[c] < MaxEventFrames
    /\ eventFrames' = [eventFrames EXCEPT ![c] = @ + 1]
    /\ IF ~service[c].isStreaming
       THEN UNCHANGED << service, frames, acks, ackWaits >>
       ELSE /\ service' = [service EXCEPT ![c] = screencastFrameReceived(@, now)]
            /\ IF findWebSocketForSession(c) = {}
               THEN UNCHANGED << frames, acks, ackWaits >>
               ELSE /\ frames' = sendFrame(frames, findWebSocketForSession(c), c, "event")
                    /\ IF service[c].streamingClient
                       THEN /\ acks' = [acks EXCEPT ![c] = @ + 1]
                            /\ ackWaits' = [ackWaits EXCEPT ![c] = @ + 1]
                       ELSE UNCHANGED << acks, ackWaits >>
    /\ UNCHANGED << now, alive, thrown, wsState, connPc, initResult, activeSessions, cleanupPc, closeLog,
                    sent, received, errors, inflight, nextTick, captures >>

(***************************************************************************)
(* The acknowledgement a frame handler awaits resolves (ok) or rejects:    *)
(* the rejection is caught and logged, and the handler ends.               *)
(***************************************************************************)
AckResolve(c, ok) ==
    /\ alive /\ Quiet
    /\ ackWaits[c] > 0
    /\ ackWaits' = [ackWaits EXCEPT ![c] = @ - 1]
    /\ errors' = [errors EXCEPT ![c] = IF ok THEN @ ELSE @ + 1]
    /\ UNCHANGED << now, alive, thrown, wsState, connPc, initResult, service, activeSessions, cleanupPc,
                    closeLog, sent, received, inflight, nextTick, captures, eventFrames,
                    acks, frames >>

Streaming(c) ==
    \/ Connect(c)
    \/ \E ok \in BOOLEAN : InitResolve(c, ok)
    \/ HeartbeatTick(c)
    \/ \E t \in captures[c], ok \in BOOLEAN : CaptureResolve(c, t, ok)
    \/ EventFrame(c)
    \/ \E ok \in BOOLEAN : AckResolve(c, ok)

NextStream ==
    \/ \E d \in ClockSteps : OnGrid(now + d) /\ Advance(d)
    \/ \E c \in {"c1"} : Streaming(c)

SpecStream == Init /\ [][NextStream]_vars

\* C7: a heartbeat frame is never forwarded within FRAME_INTERVAL of an
\* event-driven frame forwarded before it.
C7_NoHeartbeatAfterRecentEventFrame ==
    \A c \in Conns : \A i, j \in DOMAIN frames[c] :
        (i < j /\ frames[c][i].kind = "event" /\ frames[c][j].kind = "heartbeat")
        => frames[c][j].at - frames[c][i].at >= FRAME_INTERVAL

\* C8: once a first frame has been forwarded, and while the session streams to
\* an open connection, no FRAME_INTERVAL passes without a forwarded frame
\* (unless a capture is in progress or the timer is due and has yet to run).
C8_FrameEveryInterval ==
    \A c \in Conns :
        (/\ service[c].isStreaming /\ wsState[c] = "open"
         /\ frames[c] # << >>
         /\ captures[c] = {}
         /\ ~TickDue(c))
        => now - frames[c][Len(frames[c])].at <= FRAME_INTERVAL

(***************************************************************************)
(* One client that sends messages of every kind, well-formed or not, none  *)
(* while a driver call of an earlier one is outstanding, and that may send *)
(* its close frame at any time.                                            *)
(***************************************************************************)
Keys ==
    NamedKeys \cup {"Back", "Forward", "F5", " ", "a", "A", "1", "F1", "PageDown", "Shift"}

ChatTexts ==
    { Text("go to example.com"), Text("navigate to https://example.com"),
      Text("open http://a.b"), Text("Go To example.com"), Text("OPEN example.com"),
      Text("go to httpbin.org"), Text("open ftp://files.example.com"),
      Text("open  example.com"),
      Text("go to a.com") \o << 10 >> \o Text("b"),     \* a line feed in the target
      Text("go to a.com") \o << 13 >> \o Text("b"),     \* a carriage return
      Text("open x") \o << 13 >>,
      Text("open a") \o << 8232 >> \o Text("b"),        \* U+2028
      Text("go to x") \o << 8233 >>,                    \* U+2029
      Text("open caf") \o << 233 >> \o Text(".example"), \* U+00E9
      Text("hello"), Text("go to"), Text("open "), Text("goto example.com"),
      Text("please go to example.com") }

\* An unparsable payload, unknown types, pointer events without numeric x and
\* y, key events without a key.
MalformedMessages ==
    { Unparsable,
      [type |-> "scroll"], [id |-> "1"],
      [type |-> "click"], [type |-> "mousemove", x |-> Whole(50)],
      [type |-> "mousedown", x |-> [str |-> "50"], y |-> Whole(50)],
      [type |-> "keyPress"], [type |-> "keypress", key |-> ""] }

\* Chat messages without content, or without text in it.
ChatWithoutText ==
    { [type |-> "chat"], [type |-> "chat", content |-> [sender |-> "user"]] }

ProtocolMessages ==
    PointerMessages(FewX, FewY \cup {Whole(50)}) \cup KeyMessages(Keys)
        \cup ChatMessages(ChatTexts) \cup MalformedMessages \cup ChatWithoutText

ProtocolClient(c) ==
    \/ Connect(c)
    \/ \E ok \in BOOLEAN : InitResolve(c, ok)
    \/ /\ inflight[c] = << >>
       /\ \E msg \in ProtocolMessages : Receive(c, msg)
    \/ ListenerCatch(c)
    \/ \E i \in 1..MaxMessages, ok \in BOOLEAN : OpResolve(c, i, ok)
    \/ CloseFrame(c)

NextProtocol == \E c \in {"c1"} : ProtocolClient(c)

SpecProtocol == Init /\ [][NextProtocol]_vars

\* The driver calls of the message handlers that are outstanding.
DriverCalls(c) == inflight[c]

\* On a connection whose initialization failed, a message that parses is
\* answered with "session not found" and nothing else.
C11_Step ==
    \A c \in Conns : \A msg \in {m \in ProtocolMessages : parses(m)} :
        (initResult[c] = "failed" /\ Receive(c, msg)) =>
            /\ sent'[c] = [sent[c] EXCEPT !["sessionNotFound"] = @ + 1]
            /\ DriverCalls(c)' = DriverCalls(c)
\* No driver call is outstanding on such a connection.
C11_State ==
    \A c \in Conns : initResult[c] = "failed" => DriverCalls(c) = << >>
\* C11: on a connection whose initialization failed (no session registered),
\* every input message received yields one "session not found" status message
\* and causes no driver call.
C11_SessionNotFound == [] C11_State /\ [][C11_Step]_vars
C11_Witness ==
    /\ initResult["c1"] = "failed"
    /\ "c1" \notin activeSessions
    /\ sent["c1"]["sessionNotFound"] = MaxMessages
    /\ received["c1"] = MaxMessages

\* Status messages that report a failed input operation.
InputErrorsSent(c) ==
    sent[c]["mouseError"] + sent[c]["keyError"] + sent[c]["navError"]

\* The step in which a driver call of an input operation rejects.
C12_Step ==
    \A c \in Conns : \A i \in 1..MaxMessages :
        (c \in activeSessions /\ wsState[c] = "open" /\ OpResolve(c, i, FALSE)) =>
            /\ InputErrorsSent(c)' = InputErrorsSent(c) + 1
            /\ sent'[c]["processingError"] = sent[c]["processingError"]
            /\ c \in activeSessions'
            /\ service'[c].isStreaming /\ service'[c].page
            /\ wsState'[c] = "open"
\* Every failure caught while a session is registered has been reported.
C12_State ==
    \A c \in Conns :
        (c \in activeSessions /\ wsState[c] = "open") =>
            /\ service[c].isStreaming
            /\ errors[c] = InputErrorsSent(c) + sent[c]["processingError"]
\* C12: when an input operation fails against a registered session, the
\* failure is reported to the sending connection as one status message by the
\* catch block of its own handler, and the session stays registered and
\* streaming.
C12_InputFailureReported == [] C12_State /\ [][C12_Step]_vars
C12_Witness ==
    /\ "c1" \in activeSessions
    /\ wsState["c1"] = "open"
    /\ service["c1"].isStreaming
    /\ sent["c1"]["navigating"] = 1
    /\ sent["c1"]["navError"] = 1
    /\ errors["c1"] = MaxMessages
    /\ InputErrorsSent("c1") = MaxMessages
    /\ inflight["c1"] = << >>

(***************************************************************************)
(* Coordinates.  The pointer calls outstanding are read with the message   *)
(* coordinates (x, y) they were computed from.                             *)
(***************************************************************************)
PointerCalls(c) ==
    {inflight[c][i] : i \in {j \in DOMAIN inflight[c] : inflight[c][j].call \in {"click", "move"}}}

InUnit(v) == RatLe(Whole(0), v) /\ RatLe(v, Whole(1))
\* floor(v * k) for v in [0, 1]: the integer z with z <= v * k < z + 1
FloorOfScaled(v, k) == CHOOSE z \in 0..k : z * v.d <= v.n * k /\ v.n * k < (z + 1) * v.d

\* C13: for x and y both in [0, 1] the position dispatched to the driver is
\* (floor(x*W), floor(y*H)); (0.5, 0.5) is dispatched at (640, 360).
C13_FractionsScaled ==
    \A c \in Conns : \A op \in PointerCalls(c) :
        /\ (InUnit(op.x) /\ InUnit(op.y)) =>
               op.at = [x |-> Whole(FloorOfScaled(op.x, viewportSize.width)),
                        y |-> Whole(FloorOfScaled(op.y, viewportSize.height))]
        /\ (op.x = Rat(1, 2) /\ op.y = Rat(1, 2)) => op.at = [x |-> Whole(640), y |-> Whole(360)]
\* min(v, k)
MinOf(v, k) == IF v.n < k * v.d THEN v ELSE Whole(k)

\* C14: for x > W or y > H the position dispatched to the driver is
\* (min(x, W-1), min(y, H-1)); (2000, 50) is dispatched at (1279, 50).
C14_OversizeClamped ==
    \A c \in Conns : \A op \in PointerCalls(c) :
        /\ (RatGt(op.x, Whole(viewportSize.width)) \/ RatGt(op.y, Whole(viewportSize.height))) =>
               op.at = [x |-> MinOf(op.x, viewportSize.width - 1),
                        y |-> MinOf(op.y, viewportSize.height - 1)]
        /\ (op.x = Whole(2000) /\ op.y = Whole(50)) => op.at = [x |-> Whole(1279), y |-> Whole(50)]
C14_Witness ==
    /\ \E op \in PointerCalls("c1") :
          op.type = "mousedown" /\ op.x = Whole(2000) /\ op.y = Whole(50) /\ op.at.x = Whole(1279)
    /\ received["c1"] = MaxMessages

\* C15: coordinates within [0, W-1] x [0, H-1] that are not both <= 1 are
\* dispatched to the driver unchanged.
C15_InRangeUnchanged ==
    \A c \in Conns : \A op \in PointerCalls(c) :
        (/\ InViewport([x |-> op.x, y |-> op.y])
         /\ ~(RatLe(op.x, Whole(1)) /\ RatLe(op.y, Whole(1))))
        => op.at = [x |-> op.x, y |-> op.y]
C15_Witness ==
    /\ \E op \in PointerCalls("c1") :
          op.type = "mouseup" /\ op.x = Rat(3, 2) /\ op.y = Whole(719) /\ op.at.x = Rat(3, 2)
    /\ received["c1"] = MaxMessages

(***************************************************************************)
(* Keys.                                                                   *)
(***************************************************************************)
KeyCalls(c) ==
    {inflight[c][i] : i \in {j \in DOMAIN inflight[c] : inflight[c][j].type \in KeyTypes}}

\* The classification of a key as the table of key actions gives it.
KeyAction(key) ==
    IF key = "Back" THEN [call |-> "goBack", arg |-> ""]
    ELSE IF key = "Forward" THEN [call |-> "goForward", arg |-> ""]
    ELSE IF key = "F5" THEN [call |-> "reload", arg |-> ""]
    ELSE IF key = " " THEN [call |-> "press", arg |-> "Space"]
    ELSE IF key \in { "Enter", "Backspace", "Tab", "Escape", "Delete", "ArrowLeft",
                      "ArrowRight", "ArrowUp", "ArrowDown" }
         THEN [call |-> "press", arg |-> key]
    ELSE IF Len(key) = 1 THEN [call |-> "type", arg |-> key]
    ELSE [call |-> "press", arg |-> key]

\* The driver call outstanding for a key event is the one of its class.
C16_State ==
    \A c \in Conns : \A op \in KeyCalls(c) :
        /\ [call |-> op.call, arg |-> op.arg] = KeyAction(op.key)
        /\ op.key = "a" => (op.call = "type" /\ op.arg = "a")
        /\ op.key = "ArrowLeft" => (op.call = "press" /\ op.arg = "ArrowLeft")
\* A key event issues one driver call; when that call ends no other follows.
C16_Step ==
    \A c \in Conns :
        /\ \A msg \in KeyMessages(Keys) :
              (c \in activeSessions /\ Receive(c, msg)) =>
                  /\ Len(inflight'[c]) = Len(inflight[c]) + 1
                  /\ inflight'[c][Len(inflight'[c])].key = msg.key
        /\ (KeyCalls(c) # {} /\ inflight'[c] # inflight[c]) => inflight'[c] = << >>
\* C16: a key of the table is dispatched as its table action, any other key
\* of length 1 as typed text, any other longer key as a press of the key of
\* that name; each key event results in exactly one driver call.
C16_KeyDispatch == [] C16_State /\ [][C16_Step]_vars
C16_Witness ==
    /\ \E op \in KeyCalls("c1") : op.key = " " /\ op.call = "press" /\ op.arg = "Space"
    /\ sent["c1"]["keyError"] = 0
    /\ received["c1"] = MaxMessages

(***************************************************************************)
(* Chat.                                                                   *)
(***************************************************************************)
Navigations(c) ==
    {inflight[c][i] : i \in {j \in DOMAIN inflight[c] : inflight[c][j].call = "goto"}}

\* The target has a scheme: it holds "://"
HasScheme(target) ==
    \E i \in 1..(Len(target) - 2) : SubSeq(target, i, i + 2) = Text("://")

\* C17: the URL of the Navigate a chat command triggers is the target itself
\* when the target has a scheme and "https://" followed by the target when it
\* has none.
C17_NavigateUrl ==
    \A c \in Conns : \A op \in Navigations(c) :
        LET target == navigateMatch(op.text)
        IN  op.arg = IF HasScheme(target) THEN target ELSE Text("https://") \o target

\* What each malformed message is answered with.
Diagnostic(msg) ==
    CASE ~parses(msg) -> "processingError"
      [] typeOf(msg) \in PointerTypes -> "mouseError"
      [] typeOf(msg) \in KeyTypes -> "keyError"
      [] OTHER -> "unknownCommand"

\* C18: a malformed or unrecognized message on a connection with a registered
\* session is answered with one diagnostic status message; no driver call is
\* issued, the connection stays open and the session stays registered.
C18_MalformedMessage ==
    [][\A c \in Conns : \A msg \in MalformedMessages :
          (c \in activeSessions /\ Receive(c, msg)) =>
              /\ sent'[c] = [sent[c] EXCEPT ![Diagnostic(msg)] = @ + 1]
              /\ DriverCalls(c)' = DriverCalls(c)
              /\ wsState'[c] = "open"
              /\ c \in activeSessions'
              /\ service'[c] = service[c]]_vars
C18_Witness ==
    /\ "c1" \in activeSessions
    /\ wsState["c1"] = "open"
    /\ sent["c1"]["keyError"] = 1
    /\ sent["c1"]["unknownCommand"] + sent["c1"]["processingError"] + sent["c1"]["mouseError"] = 1
    /\ received["c1"] = MaxMessages
    /\ inflight["c1"] = << >>

\* Status messages that report an error.
DiagnosticsSent(c) ==
    sent[c]["initError"] + sent[c]["processingError"] + sent[c]["mouseError"]
        + sent[c]["keyError"] + sent[c]["navError"]

\* C19: every error caught while serving an open connection, teardown apart,
\* has been reported to the client in a status message.
C19_EveryErrorReported ==
    \A c \in Conns : wsState[c] = "open" => errors[c] <= DiagnosticsSent(c)

(***************************************************************************)
(* A session that streams and whose connection then goes away: the         *)
(* teardown together with the heartbeat timer and the driver's frames.     *)
(***************************************************************************)
Cancel(c) ==
    \/ Connect(c)
    \/ \E ok \in BOOLEAN : InitResolve(c, ok)
    \/ HeartbeatTick(c)
    \/ \E t \in captures[c], ok \in BOOLEAN : CaptureResolve(c, t, ok)
    \/ EventFrame(c)
    \/ \E ok \in BOOLEAN : AckResolve(c, ok)
    \/ CloseFrame(c)
    \/ TransportError(c)
    \/ TransportClose(c)
    \/ \E h \in Handlers, ok \in BOOLEAN : CloseResolve(c, h, ok)

NextCancel ==
    \/ \E d \in {FRAME_INTERVAL} : now + d <= MaxCancelTime /\ Advance(d)
    \/ \E c \in {"c1"} : Cancel(c)

SpecCancel == Init /\ [][NextCancel]_vars

ReleaseOps == {"pageClose", "contextClose", "browserClose"}
CaptureOps == {"stopScreencast", "detach"}
\* Where in the log of close() calls the driver calls `ops` were issued.
IssuedAt(c, ops) == {i \in DOMAIN closeLog[c] : closeLog[c][i].ev \in ops}
\* close() has issued page.close()
PageReleased(c) == IssuedAt(c, {"pageClose"}) # {}

\* When the release of the page, context or browser is issued, the timer is
\* cleared, the capture is off, and the capture handle has been told to stop
\* (and to detach, if at all) before.
C20_State ==
    \A c \in Conns :
        IssuedAt(c, ReleaseOps) # {} =>
            /\ ~service[c].periodicFrameInterval
            /\ ~service[c].isStreaming
            /\ ~service[c].streamingClient
            /\ \E i \in IssuedAt(c, {"stopScreencast"}) : \A j \in IssuedAt(c, ReleaseOps) : i < j
            /\ \A i \in IssuedAt(c, CaptureOps) : \A j \in IssuedAt(c, ReleaseOps) : i < j
\* Once the page is released no capture is issued, no frame is acknowledged
\* and no frame is sent.
C20_Step ==
    \A c \in Conns :
        PageReleased(c) =>
            /\ captures'[c] \subseteq captures[c]
            /\ acks'[c] = acks[c]
            /\ frames'[c] = frames[c]
\* C20: close() stops the heartbeat timer and stops / detaches the capture
\* handle before it releases the page, the context and the browser, and once
\* the page is released no capture callback issues a driver call or sends a
\* frame for the session.
C20_CancelBeforeRelease == [] C20_State /\ [][C20_Step]_vars
C20_Witness ==
    /\ PageReleased("c1")
    /\ IssuedAt("c1", {"detach"}) # {}
    /\ captures["c1"] # {}
    /\ frames["c1"] # << >>
    /\ acks["c1"] < eventFrames["c1"]
    /\ now > FRAME_INTERVAL

(***************************************************************************)
(* A message that arrives while the 'connection' handler still awaits      *)
(* initialize(): ws.on('message', ...) has not run yet, the 'message'      *)
(* event finds no listener and the message is gone.                        *)
(***************************************************************************)
ReceiveBeforeListening(c, msg) ==
    /\ alive /\ Quiet
    /\ wsState[c] = "open"
    /\ connPc[c] \in InitAwaits
    /\ received[c] < MaxMessages
    /\ received' = [received EXCEPT ![c] = @ + 1]
    /\ UNCHANGED << now, alive, thrown, wsState, connPc, initResult, service, activeSessions, cleanupPc,
                    closeLog, sent, errors, inflight, nextTick, captures, eventFrames, acks,
                    ackWaits, frames >>

(***************************************************************************)
(* Several sessions at once, each with its messages, its frames and its    *)
(* timer, and connections that go away while the others stream.  (What     *)
(* close() does after its first await, the 'error' event and the end of    *)
(* an acknowledgement are followed in SpecCancel and SpecSession.)         *)
(***************************************************************************)
SessionMessages ==
    { [type |-> "click", x |-> Rat(1, 2), y |-> Rat(1, 2)], [type |-> "scroll"] }

\* The session has room for one more message or pushed frame.
SessionEventsLeft(c) == received[c] + eventFrames[c] < MaxSessionEvents

Routing(c) ==
    \/ Connect(c)
    \/ \E ok \in BOOLEAN : InitResolve(c, ok)
    \/ /\ inflight[c] = << >> /\ SessionEventsLeft(c)
       /\ \E msg \in SessionMessages : Receive(c, msg)
    \/ \E i \in 1..MaxMessages, ok \in BOOLEAN : OpResolve(c, i, ok)
    \/ HeartbeatTick(c)
    \/ \E t \in captures[c], ok \in BOOLEAN : CaptureResolve(c, t, ok)
    \/ SessionEventsLeft(c) /\ EventFrame(c)
    \/ CloseFrame(c)
    \/ TransportClose(c)

NextRouting ==
    \/ \E d \in {FRAME_INTERVAL} : now + d <= MaxCancelTime /\ Advance(d)
    \/ \E c \in Conns : Routing(c)

SpecRouting == Init /\ [][NextRouting]_vars

\* Every frame a connection got was produced by its own session.
C21_State ==
    \A k \in Conns : \A i \in DOMAIN frames[k] : frames[k][i].session = k
\* The step is one of the handlers of connection c: its position, its
\* messages, its driver calls or its frames change.
StepOf(c) ==
    \/ connPc'[c] # connPc[c] \/ received'[c] # received[c] \/ inflight'[c] # inflight[c]
    \/ eventFrames'[c] # eventFrames[c] \/ captures'[c] # captures[c]
    \/ cleanupPc'[c] # cleanupPc[c]
\* A step of the handlers of connection c sends frames and status messages to
\* c alone, and frames only while c is open.
C21_Step ==
    \A c \in Conns :
        /\ StepOf(c) => \A k \in Conns \ {c} : sent'[k] = sent[k] /\ frames'[k] = frames[k]
        /\ frames'[c] # frames[c] => (wsState[c] = "open" /\ StepOf(c))
        /\ sent'[c] # sent[c] => (wsState[c] \in {"absent", "open"} /\ StepOf(c))
\* C21: with several sessions running, a frame of a session's capture goes
\* only to the open connection that owns the session, and the status messages
\* for an input go only to the connection that sent it.
C21_OwnConnectionOnly == [] C21_State /\ [][C21_Step]_vars
C21_Witness ==
    /\ \E i \in DOMAIN frames["c1"] : frames["c1"][i].kind = "event"
    /\ \E i \in DOMAIN frames["c2"] : frames["c2"][i].kind = "heartbeat"
    /\ sent["c2"]["mouseError"] = 1
    /\ sent["c1"]["mouseError"] = 0
    /\ wsState["c1"] = "closed"
    /\ wsState["c2"] = "open"

(***************************************************************************)
(* One whole session: its messages, its frames, its timer, the clock and   *)
(* the teardown, in every interleaving.                                    *)
(***************************************************************************)
Session(c) ==
    \/ Connect(c)
    \/ \E ok \in BOOLEAN : InitResolve(c, ok)
    \/ /\ inflight[c] = << >> /\ SessionEventsLeft(c)
       /\ \E msg \in SessionMessages : Receive(c, msg)
    \/ \E i \in 1..MaxMessages, ok \in BOOLEAN : OpResolve(c, i, ok)
    \/ HeartbeatTick(c)
    \/ \E t \in captures[c], ok \in BOOLEAN : CaptureResolve(c, t, ok)
    \/ SessionEventsLeft(c) /\ EventFrame(c)
    \/ \E ok \in BOOLEAN : AckResolve(c, ok)
    \/ CloseFrame(c)
    \/ TransportError(c)
    \/ TransportClose(c)
    \/ \E h \in Handlers, ok \in BOOLEAN : CloseResolve(c, h, ok)

NextSession ==
    \/ \E d \in {FRAME_INTERVAL} : now + d <= MaxCancelTime /\ Advance(d)
    \/ \E c \in {"c1"} : Session(c)

SpecSession == Init /\ [][NextSession]_vars

\* The registry holds a connection's id only once its own initialization has
\* succeeded: one entry per connection at most.
C22_State ==
    /\ activeSessions \subseteq Conns
    /\ \A c \in activeSessions : initResult[c] = "ok" /\ connPc[c] = "listening"
\* An entry is added by the connection's own initialization and removed by
\* a cleanupSession that its own 'close' or 'error' event started, in the step
\* in which the close() of that cleanup returns.
C22_Step ==
    \A c \in Conns :
        /\ (c \notin activeSessions /\ c \in activeSessions') =>
               (initResult[c] = "pending" /\ initResult'[c] = "ok")
        /\ (c \in activeSessions /\ c \notin activeSessions') =>
               /\ wsState[c] \in {"closing", "closed"}
               /\ \E h \in Handlers :
                     cleanupPc[c][h] \in TeardownOps /\ cleanupPc'[c][h] = "cleaned"
               /\ sent'[c] = sent[c] /\ errors'[c] = errors[c]
               /\ received'[c] = received[c] /\ inflight'[c] = inflight[c]
               /\ frames'[c] = frames[c] /\ eventFrames'[c] = eventFrames[c]
               /\ captures'[c] = captures[c] /\ now' = now
\* C22: the registry holds at most one session per connection, under the
\* connection's id, and an entry is removed only as a consequence of a
\* transport close or error of its own connection: no input failure, frame
\* failure, unknown message or passing of time removes it.
C22_RemovedOnlyByTransport == [] C22_State /\ [][C22_Step]_vars
C22_Witness ==
    /\ "c1" \in activeSessions
    /\ wsState["c1"] = "open"
    /\ sent["c1"]["mouseError"] = 1
    /\ errors["c1"] >= 2
    /\ now = MaxCancelTime

\* C23: while a session is streaming and its connection is open, every
\* screencast frame the driver pushes is forwarded to the client as one frame
\* message in the handler run that received it, however recently another frame
\* was sent.
C23_EventFramesForwarded ==
    [][\A c \in Conns :
          (/\ eventFrames'[c] = eventFrames[c] + 1
           /\ service[c].isStreaming
           /\ wsState[c] = "open")
          => frames'[c] = Append(frames[c], [kind |-> "event", at |-> now, session |-> c])]_vars
C23_Witness ==
    /\ Len(frames["c1"]) = 3
    /\ frames["c1"][1].kind = "heartbeat"
    /\ frames["c1"][2].kind = "event"
    /\ frames["c1"][3].kind = "event"
    /\ frames["c1"][1].at = frames["c1"][3].at

\* C24: whenever a frame has been forwarded, by either trigger, lastActivity
\* is at the time of that frame.
C24_ActivityAtLastFrame ==
    \A c \in Conns :
        frames[c] # << >> => service[c].lastActivity >= frames[c][Len(frames[c])].at

\* C25: whenever a frame message is sent for a session, by either trigger,
\* lastFrameTimestamp is assigned in the handler run that sent it: the time of
\* the event for a pushed frame, the time its tick read for a heartbeat frame.
C25_FrameTimeAssigned ==
    [][\A c \in Conns :
          frames'[c] # frames[c] =>
              /\ Len(frames'[c]) = Len(frames[c]) + 1
              /\ IF frames'[c][Len(frames'[c])].kind = "event"
                 THEN service'[c].lastFrameTimestamp = now
                 ELSE \E t \in captures[c] \ captures'[c] :
                          service'[c].lastFrameTimestamp = t]_vars
C25_Witness ==
    /\ Len(frames["c1"]) >= 2
    /\ frames["c1"][1].kind = "event"
    /\ frames["c1"][Len(frames["c1"])].kind = "heartbeat"
    /\ service["c1"].lastFrameTimestamp > frames["c1"][1].at
    /\ service["c1"].lastFrameTimestamp < frames["c1"][Len(frames["c1"])].at

(***************************************************************************)
(* Button operations.                                                      *)
(***************************************************************************)
ButtonCall(type) == IF type = "mousedown" THEN "down" ELSE "up"

\* A button call is outstanding only for a mousedown / mouseup message, and
\* it is the call of that message's button.
C26_State ==
    \A c \in Conns : \A i \in DOMAIN inflight[c] :
        inflight[c][i].call \in {"down", "up"} =>
            /\ inflight[c][i].type \in {"mousedown", "mouseup"}
            /\ inflight[c][i].call = ButtonCall(inflight[c][i].type)
\* With one message in progress at a time: a button call is issued only by
\* the step in which the move of the same operation, to the same position,
\* resolves; a step in which the move rejects issues nothing and reports.
C26_Step ==
    \A c \in Conns :
        /\ (inflight'[c] # << >> /\ inflight'[c][1].call \in {"down", "up"}
                /\ inflight'[c] # inflight[c]) =>
               /\ inflight[c] # << >>
               /\ inflight[c][1].call = "move"
               /\ inflight'[c] = << [inflight[c][1] EXCEPT !.call = ButtonCall(inflight[c][1].type)] >>
               /\ inflight[c][1].at = pointerCoords(inflight[c][1].type, inflight[c][1].x, inflight[c][1].y)
               /\ errors'[c] = errors[c] /\ sent'[c] = sent[c]
        /\ (inflight[c] # << >> /\ inflight[c][1].type \in {"mousedown", "mouseup"}
                /\ inflight[c][1].call = "move" /\ OpResolve(c, 1, FALSE)) =>
               /\ inflight'[c] = << >>
               /\ sent'[c]["mouseError"] = sent[c]["mouseError"] + 1
        /\ (inflight[c] # << >> /\ inflight[c][1].type \in {"mousedown", "mouseup"}
                /\ inflight[c][1].call = "move" /\ OpResolve(c, 1, TRUE)) =>
               inflight'[c][1].call = ButtonCall(inflight[c][1].type)
\* C26: mouseDown and mouseUp first move the pointer to the normalized
\* position and only then toggle the button; if the move fails the button is
\* not toggled.
C26_MoveThenButton == [] C26_State /\ [][C26_Step]_vars
C26_Witness ==
    /\ inflight["c1"] # << >>
    /\ inflight["c1"][1].type = "mouseup"
    /\ inflight["c1"][1].call = "up"
    /\ inflight["c1"][1].at = [x |-> Whole(1279), y |-> Whole(50)]
    /\ sent["c1"]["mouseError"] = 1
    /\ received["c1"] = MaxMessages

\* C27: click, mouseDown, mouseUp and mouseMove apply the same normalization:
\* the position an operation dispatches to is the one each of the four
\* computes from the same input.
C27_SameNormalization ==
    \A c \in Conns : \A op \in PointerCalls(c) :
        /\ op.at = clickCoords(op.x, op.y)
        /\ op.at = mouseDownCoords(op.x, op.y)
        /\ op.at = mouseUpCoords(op.x, op.y)
        /\ op.at = mouseMoveCoords(op.x, op.y)
C27_Witness ==
    /\ \E op \in PointerCalls("c1") :
          op.type = "mousemove" /\ op.x = Whole(1281) /\ op.y = Rat(1, 2)
              /\ op.at = [x |-> Whole(1279), y |-> Rat(1, 2)]
    /\ received["c1"] = MaxMessages

(***************************************************************************)
(* Resources of a session whose creation failed.                           *)
(***************************************************************************)
Acquired(c) ==
    service[c].browser \/ service[c].context \/ service[c].page \/ service[c].streamingClient

\* C28: once initialize() has failed and the 'connection' handler has handled
\* the failure, nothing the service acquired is still held: no browser stays
\* open for a connection without a registered session.
C28_FailedInitReleases ==
    \A c \in Conns :
        (initResult[c] = "failed" /\ connPc[c] = "listening" /\ c \notin activeSessions)
            => ~Acquired(c)

(***************************************************************************)
(* One client that may send at any time after it has connected, also       *)
(* before the server listens for its messages.                             *)
(***************************************************************************)
ArrivalClient(c) ==
    \/ ProtocolClient(c)
    \/ \E msg \in ProtocolMessages : ReceiveBeforeListening(c, msg)

NextArrival == \E c \in {"c1"} : ArrivalClient(c)

SpecArrival == Init /\ [][NextArrival]_vars

\* C29: every message that arrives on an open connection, also one that
\* arrives while the session is still being initialized, leads to a driver
\* call or to a status message on that connection.
C29_NoMessageWithoutEffect ==
    [][\A c \in Conns :
          (wsState[c] = "open" /\ received'[c] = received[c] + 1) =>
              \/ sent'[c] # sent[c]
              \/ Len(DriverCalls(c)') > Len(DriverCalls(c))]_vars

\* C30: lastFrameTimestamp never decreases over the life of a session: neither
\* the frame handler nor a heartbeat tick that completes after its capture
\* assigns a time earlier than the one the field holds.
C30_FrameTimeNonDecreasing ==
    [][\A c \in Conns :
          service'[c].lastFrameTimestamp >= service[c].lastFrameTimestamp]_vars

\* C31: at most one heartbeat capture is outstanding per session: a tick
\* never starts a capture while the capture of an earlier tick of the same
\* session has not ended.
C31_OneCaptureInFlight ==
    \A c \in Conns : Cardinality(captures[c]) <= 1

=============================================================================
